---- MODULE Spec2Model ----
(***************************************************************************)
(* Lead Bringer CRM API (src/api/index.py): the four protected routes      *)
(* log-call, get-company-history, search-calls and get-follow-ups over a   *)
(* spreadsheet with a Companies sheet and a Calls sheet.                   *)
(*                                                                         *)
(* Strings are sequences of one-character strings.  A handler has no await *)
(* between its store calls, so one worker process serves one request at a  *)
(* time; several worker processes share the spreadsheet and interleave at  *)
(* the granularity of one store call.  Every store call may raise.  Spec   *)
(* is one worker serving the four routes, SpecConc two workers serving     *)
(* log-call while the clock advances; SpecFind, SpecFollowUps, SpecSearch  *)
(* and SpecHistory run one query handler over sheets drawn from bounded    *)
(* sets; SpecDates is one worker serving log-call with any follow_up_date. *)
(***************************************************************************)
EXTENDS Integers, Sequences, FiniteSets, TLC

VARIABLES
    companies,  \* data rows of the Companies sheet (row 1, the header, is implicit)
    calls,      \* data rows of the Calls sheet
    now,        \* the wall clock, in days
    nextId,     \* source of fresh uuid4 values
    pc,         \* per worker: the next store call of the request it serves
    op,         \* per worker: the route being served
    inp,        \* per worker: the request (header, body or query parameters)
    local,      \* per worker: the handler's local variables
    trace,      \* per worker: the store calls made so far, each with its outcome
    resp,       \* per worker: the HTTP response once the request is done
    before      \* per worker: the number of rows of each sheet when the request arrived

vars == <<companies, calls, now, nextId, pc, op, inp, local, trace, resp, before>>

----------------------------------------------------------------------------
(* Bounds of the model *)

MaxCalls == 2       \* uuid4 values drawn, hence Calls rows appended, in a run
MaxCompanies == 2   \* Companies rows appended in a run
MaxClock == 2       \* last day the clock reaches
MaxRows == 3        \* rows of a sheet drawn by the initial states of the query specifications

----------------------------------------------------------------------------
(* Python values *)

\* None where a row number is expected (row numbers start at 2)
None == 0

\* None where a string is expected; "None" is no character of any string
NoneStr == <<"None">>

\* bool(s) of an Optional[str]
Truthy(s) == s # NoneStr /\ s # <<>>

LowerChar(c) ==
    CASE c = "A" -> "a"
      [] c = "B" -> "b"
      [] c = "N" -> "n"
      [] OTHER -> c

\* str.lower()
Lower(s) == [i \in 1..Len(s) |-> LowerChar(s[i])]

\* sub in s
Contains(sub, s) ==
    \E i \in 0..(Len(s) - Len(sub)) : SubSeq(s, i + 1, i + Len(sub)) = sub

\* ord(c) for the characters of dates
Ord(c) ==
    CASE c = "0" -> 48
      [] c = "1" -> 49
      [] c = "2" -> 50
      [] c = "3" -> 51
      [] OTHER -> 97

RECURSIVE StrLE(_, _)
\* a <= b on str: lexicographic by code point, a proper prefix is smaller
StrLE(a, b) ==
    IF a = <<>> THEN TRUE
    ELSE IF b = <<>> THEN FALSE
    ELSE IF Ord(Head(a)) < Ord(Head(b)) THEN TRUE
    ELSE IF Ord(Head(a)) > Ord(Head(b)) THEN FALSE
    ELSE StrLE(Tail(a), Tail(b))

Digit(n) ==
    CASE n = 0 -> "0"
      [] n = 1 -> "1"
      [] n = 2 -> "2"
      [] OTHER -> "3"

\* datetime.strftime: fixed width, zero padded
Strftime(t) == <<Digit(t \div 10), Digit(t % 10)>>

----------------------------------------------------------------------------
(* Requests *)

Workers == {"w1", "w2"}

API_KEY == <<"k">>

\* the X-API-Key header a client can send; NoneStr is a request without the header
Headers == {API_KEY, <<"x">>, NoneStr}

Names == {<<"a", "b">>, <<"A", "B">>, <<"b">>}

ContactNames == {<<"j">>}

NotesIn == {<<"a", "B">>}

FollowUpIn == {NoneStr, <<"0", "1">>}

Keywords == {<<"b">>}

CompanyFilters == {NoneStr, <<"A", "B">>}

NoInput ==
    [header |-> NoneStr, company_name |-> <<>>, contact_name |-> <<>>, notes |-> <<>>,
     follow_up_date |-> NoneStr, keyword |-> <<>>]

\* CallLog bodies of POST /log-call
CallLogs(h) ==
    {[NoInput EXCEPT !.header = h, !.company_name = c, !.contact_name = k,
                     !.notes = n, !.follow_up_date = f] :
        c \in Names, k \in ContactNames, n \in NotesIn, f \in FollowUpIn}

\* query of GET /get-company-history
HistoryQueries(h) ==
    {[NoInput EXCEPT !.header = h, !.company_name = c] : c \in Names}

\* query of GET /search-calls
SearchQueries(h) ==
    {[NoInput EXCEPT !.header = h, !.keyword = k, !.company_name = c] :
        k \in Keywords, c \in CompanyFilters}

\* GET /get-follow-ups takes no parameter
FollowUpQueries(h) == {[NoInput EXCEPT !.header = h]}

Requests(o, h) ==
    CASE o = "log_call" -> CallLogs(h)
      [] o = "get_company_history" -> HistoryQueries(h)
      [] o = "search_calls" -> SearchQueries(h)
      [] OTHER -> FollowUpQueries(h)

Routes == {"log_call", "get_company_history", "search_calls", "get_follow_ups"}

----------------------------------------------------------------------------
(* Responses *)

NoneData ==
    [name |-> NoneStr, contact_name |-> NoneStr, no_call |-> FALSE, created_at |-> NoneStr]

NoLocal == [company_row |-> None, company_data |-> NoneData]

NoRows == [companies |-> 0, calls |-> 0]

NoResp ==
    [status |-> 0, success |-> FALSE, message |-> "", id |-> 0,
     company |-> NoneData, calls |-> <<>>, count |-> 0]

\* HTTPException(status_code=401, detail="Invalid API Key")
Unauthorized == [NoResp EXCEPT !.status = 401, !.message = "Invalid API Key"]

\* a required Header(...) parameter that the request does not carry
Unprocessable == [NoResp EXCEPT !.status = 422, !.message = "Field required"]

\* the except clause of a handler: a plain dict, which FastAPI sends with status 200
HandlerError(o) ==
    [NoResp EXCEPT !.status = 200, !.success = FALSE,
                   !.message = CASE o = "log_call" -> "Error logging call"
                                 [] o = "get_company_history" -> "Error getting company history"
                                 [] o = "search_calls" -> "Error searching calls"
                                 [] OTHER -> "Error getting follow-ups"]

----------------------------------------------------------------------------
(* The sheets *)

HeaderName == <<"N">>

\* sheet.col_values(1): the header cell, then the name of every data row
ColValues(sheet) == <<HeaderName>> \o [i \in 1..Len(sheet) |-> sheet[i].name]

RECURSIVE ScanNamesExact(_, _, _)
\* ScanNames comparing the names as written
ScanNamesExact(names, company_name, k) ==
    IF k > Len(names) THEN None
    ELSE IF names[k] = company_name THEN k + 1
    ELSE ScanNamesExact(names, company_name, k + 1)

RECURSIVE ScanNamesWithin(_, _, _)
\* ScanNames taking a row whose name contains the name asked for
ScanNamesWithin(names, company_name, k) ==
    IF k > Len(names) THEN None
    ELSE IF Contains(Lower(company_name), Lower(names[k])) THEN k + 1
    ELSE ScanNamesWithin(names, company_name, k + 1)

RECURSIVE ScanNames(_, _, _)
\* the loop of find_company_row over enumerate(companies, start=2)
ScanNames(names, company_name, k) ==
    IF k > Len(names) THEN None
    ELSE IF Lower(names[k]) = Lower(company_name) THEN k + 1
    ELSE ScanNames(names, company_name, k + 1)

\* find_company_row; ok is whether sheet.col_values(1) returned
find_company_row(ok, sheet, company_name) ==
    IF ok THEN ScanNames(Tail(ColValues(sheet)), company_name, 1)
    ELSE None

\* get_company_data; ok is whether sheet.row_values(row) returned
get_company_data(ok, sheet, row) ==
    IF row = None THEN NoneData
    ELSE IF ~ok THEN NoneData
    ELSE [name |-> sheet[row - 1].name,
          contact_name |-> sheet[row - 1].contact_name,
          no_call |-> IF sheet[row - 1].no_call # <<>>
                      THEN sheet[row - 1].no_call = <<"T">> ELSE FALSE,
          created_at |-> sheet[row - 1].created_at]

\* the dict a handler builds from one record of get_all_records()
CallDict(call) ==
    [id |-> call.id, company_name |-> call.company_name,
     contact_name |-> call.contact_name,
     notes |-> call.notes, follow_up_date |-> call.follow_up_date]

\* the row log_call appends to Companies
CompanyRow(call, t) ==
    [name |-> call.company_name, contact_name |-> call.contact_name,
     no_call |-> <<"F">>, created_at |-> Strftime(t)]

\* the row log_call appends to Calls (Date, Time, Outcome and Next Steps are left out:
\* no handler reads them)
CallRow(call, call_id) ==
    [id |-> call_id, company_name |-> call.company_name,
     contact_name |-> call.contact_name, notes |-> call.notes,
     follow_up_date |-> IF Truthy(call.follow_up_date) THEN call.follow_up_date ELSE <<>>]

----------------------------------------------------------------------------
(* The queries *)

RECURSIVE CompanyCallsExact(_, _, _)
\* CompanyCalls comparing the names as written
CompanyCallsExact(all_calls, company_name, k) ==
    IF k > Len(all_calls) THEN <<>>
    ELSE IF all_calls[k].company_name = company_name
         THEN <<CallDict(all_calls[k])>> \o CompanyCallsExact(all_calls, company_name, k + 1)
         ELSE CompanyCallsExact(all_calls, company_name, k + 1)

RECURSIVE CompanyCalls(_, _, _)
\* the loop of get_calls_for_company over all_calls[k..]
CompanyCalls(all_calls, company_name, k) ==
    IF k > Len(all_calls) THEN <<>>
    ELSE IF Lower(all_calls[k].company_name) = Lower(company_name)
         THEN <<CallDict(all_calls[k])>> \o CompanyCalls(all_calls, company_name, k + 1)
         ELSE CompanyCalls(all_calls, company_name, k + 1)

\* get_calls_for_company; ok is whether sheet.get_all_records() returned
get_calls_for_company(ok, sheet, company_name) ==
    IF ok THEN CompanyCalls(sheet, company_name, 1) ELSE <<>>

\* SearchMatch looking for the keyword as written
SearchMatchExact(call, keyword, company_name) ==
    /\ Contains(keyword, call.notes)
    /\ ~(Truthy(company_name) /\ Lower(call.company_name) # Lower(company_name))

\* the test search_calls applies to one record
SearchMatch(call, keyword, company_name) ==
    /\ Contains(Lower(keyword), Lower(call.notes))
    /\ ~(Truthy(company_name) /\ Lower(call.company_name) # Lower(company_name))

RECURSIVE MatchingCalls(_, _, _, _)
\* the loop of search_calls over all_calls[k..]
MatchingCalls(all_calls, keyword, company_name, k) ==
    IF k > Len(all_calls) THEN <<>>
    ELSE IF SearchMatch(all_calls[k], keyword, company_name)
         THEN <<CallDict(all_calls[k])>> \o MatchingCalls(all_calls, keyword, company_name, k + 1)
         ELSE MatchingCalls(all_calls, keyword, company_name, k + 1)

\* IsDue leaving out the calls due on the day itself
IsDueBefore(call, today) ==
    /\ call.follow_up_date # <<>>
    /\ StrLE(call.follow_up_date, today)
    /\ call.follow_up_date # today

\* the test get_follow_ups applies to one record
IsDue(call, today) ==
    /\ call.follow_up_date # <<>>
    /\ StrLE(call.follow_up_date, today)

RECURSIVE DueCalls(_, _, _)
\* the loop of get_follow_ups over all_calls[k..]
DueCalls(all_calls, today, k) ==
    IF k > Len(all_calls) THEN <<>>
    ELSE IF IsDue(all_calls[k], today)
         THEN <<CallDict(all_calls[k])>> \o DueCalls(all_calls, today, k + 1)
         ELSE DueCalls(all_calls, today, k + 1)

RECURSIVE InsertByDate(_, _)
\* x placed in the sorted list s behind every element whose key is not greater
InsertByDate(x, s) ==
    IF s = <<>> THEN <<x>>
    ELSE IF StrLE(Head(s).follow_up_date, x.follow_up_date)
         THEN <<Head(s)>> \o InsertByDate(x, Tail(s))
         ELSE <<x>> \o s

RECURSIVE SortByDate(_, _)
\* list.sort(key=follow_up_date), which is stable: s[1..k] sorted
SortByDate(s, k) ==
    IF k = 0 THEN <<>>
    ELSE InsertByDate(s[k], SortByDate(s, k - 1))

\* the list get_follow_ups returns
FollowUps(all_calls, today) ==
    SortByDate(DueCalls(all_calls, today, 1), Len(DueCalls(all_calls, today, 1)))

----------------------------------------------------------------------------
(* The handlers, one action per store call *)

\* what a store call can do: return, or raise when the worksheet is opened,
\* or raise in the read or append itself
Outcomes == {"ok", "worksheet", "call"}

Logged(w, name, ok) == Append(trace[w], [call |-> name, ok |-> ok])

\* the log-call requests in flight, each of which may still append a row to each sheet
Pending == Cardinality({w \in Workers : op[w] = "log_call" /\ pc[w] # "done"})

\* the handler returns r
Finish(w, r) ==
    /\ pc' = [pc EXCEPT ![w] = "done"]
    /\ resp' = [resp EXCEPT ![w] = r]

\* verify_api_key: the dependency of every protected route
verify_api_key(x_api_key) ==
    IF x_api_key = NoneStr THEN Unprocessable
    ELSE IF x_api_key # API_KEY THEN Unauthorized
    ELSE NoResp

\* A request arrives at an idle worker: verify_api_key, then get_sheets_client(),
\* open_workbook() and the first spreadsheet.worksheet(...) of the handler.
Receive(w, o, rq, ok) ==
    /\ pc[w] = "idle"
    /\ o = "log_call" => /\ nextId + Pending <= MaxCalls
                         /\ Len(companies) + Pending < MaxCompanies
    /\ op' = [op EXCEPT ![w] = o]
    /\ inp' = [inp EXCEPT ![w] = rq]
    /\ local' = [local EXCEPT ![w] = NoLocal]
    /\ before' = [before EXCEPT ![w] = [companies |-> Len(companies), calls |-> Len(calls)]]
    /\ IF verify_api_key(rq.header) # NoResp
       THEN /\ Finish(w, verify_api_key(rq.header))
            /\ trace' = [trace EXCEPT ![w] = <<>>]
       ELSE /\ trace' = [trace EXCEPT ![w] = <<[call |-> "open", ok |-> ok]>>]
            /\ IF ok
               THEN /\ pc' = [pc EXCEPT ![w] =
                                IF o \in {"log_call", "get_company_history"}
                                THEN "find" ELSE "read_calls"]
                    /\ resp' = [resp EXCEPT ![w] = NoResp]
               ELSE Finish(w, HandlerError(o))
    /\ UNCHANGED <<companies, calls, now, nextId>>

\* company_row = find_company_row(companies_sheet, company_name), and the test on it
FindCompany(w, ok) ==
    /\ pc[w] = "find"
    /\ trace' = [trace EXCEPT ![w] = Logged(w, "Companies.col_values", ok)]
    /\ local' = [local EXCEPT ![w].company_row =
                    find_company_row(ok, companies, inp[w].company_name)]
    /\ IF local'[w].company_row = None
       THEN IF op[w] = "log_call"
            THEN /\ pc' = [pc EXCEPT ![w] = "append_company"]
                 /\ UNCHANGED resp
            ELSE Finish(w, [NoResp EXCEPT !.status = 200, !.success = FALSE,
                                          !.message = "Company not found"])
       ELSE /\ pc' = [pc EXCEPT ![w] = IF op[w] = "log_call" THEN "append_call"
                                       ELSE "get_data"]
            /\ UNCHANGED resp
    /\ UNCHANGED <<companies, calls, now, nextId, op, inp, before>>

\* AppendCompany on a sheet with an atomic get-or-create: no row is added for a name
\* the sheet holds by now
AppendCompanyIfAbsent(w, ok) ==
    /\ pc[w] = "append_company"
    /\ trace' = [trace EXCEPT ![w] = Logged(w, "Companies.append_row", ok)]
    /\ IF ok
       THEN /\ companies' =
                  IF find_company_row(TRUE, companies, inp[w].company_name) = None
                  THEN Append(companies, CompanyRow(inp[w], now))
                  ELSE companies
            /\ pc' = [pc EXCEPT ![w] = "append_call"]
            /\ UNCHANGED resp
       ELSE /\ Finish(w, HandlerError("log_call"))
            /\ UNCHANGED companies
    /\ UNCHANGED <<calls, now, nextId, op, inp, local, before>>

\* AppendCompany writing the new row above the existing ones
InsertCompanyOnTop(w, ok) ==
    /\ pc[w] = "append_company"
    /\ trace' = [trace EXCEPT ![w] = Logged(w, "Companies.append_row", ok)]
    /\ IF ok
       THEN /\ companies' = <<CompanyRow(inp[w], now)>> \o companies
            /\ pc' = [pc EXCEPT ![w] = "append_call"]
            /\ UNCHANGED resp
       ELSE /\ Finish(w, HandlerError("log_call"))
            /\ UNCHANGED companies
    /\ UNCHANGED <<calls, now, nextId, op, inp, local, before>>

\* AppendCompany going on to the Calls sheet when the append raised
AppendCompanySwallowed(w, ok) ==
    /\ pc[w] = "append_company"
    /\ trace' = [trace EXCEPT ![w] = Logged(w, "Companies.append_row", ok)]
    /\ companies' = IF ok THEN Append(companies, CompanyRow(inp[w], now)) ELSE companies
    /\ pc' = [pc EXCEPT ![w] = "append_call"]
    /\ UNCHANGED <<calls, now, nextId, op, inp, local, resp, before>>

\* log_call: companies_sheet.append_row([...]) for a company that was not found
AppendCompany(w, ok) ==
    /\ pc[w] = "append_company"
    /\ trace' = [trace EXCEPT ![w] = Logged(w, "Companies.append_row", ok)]
    /\ IF ok
       THEN /\ companies' = Append(companies, CompanyRow(inp[w], now))
            /\ pc' = [pc EXCEPT ![w] = "append_call"]
            /\ UNCHANGED resp
       ELSE /\ Finish(w, HandlerError("log_call"))
            /\ UNCHANGED companies
    /\ UNCHANGED <<calls, now, nextId, op, inp, local, before>>

\* log_call: spreadsheet.worksheet("Calls"), uuid4 and calls_sheet.append_row(call_data)
AppendCall(w, out) ==
    /\ pc[w] = "append_call"
    /\ IF out = "worksheet"
       THEN /\ trace' = [trace EXCEPT ![w] = Logged(w, "Calls.worksheet", FALSE)]
            /\ Finish(w, HandlerError("log_call"))
            /\ UNCHANGED <<calls, nextId>>
       ELSE /\ trace' = [trace EXCEPT ![w] = Logged(w, "Calls.append_row", out = "ok")]
            /\ nextId' = nextId + 1
            /\ IF out = "ok"
               THEN /\ calls' = Append(calls, CallRow(inp[w], nextId))
                    /\ Finish(w, [NoResp EXCEPT !.status = 200, !.success = TRUE,
                                                !.message = "Call logged successfully",
                                                !.id = nextId])
               ELSE /\ Finish(w, HandlerError("log_call"))
                    /\ UNCHANGED calls
    /\ UNCHANGED <<companies, now, op, inp, local, before>>

\* get_company_history: company_data = get_company_data(companies_sheet, company_row)
GetCompanyData(w, ok) ==
    /\ pc[w] = "get_data"
    /\ trace' = [trace EXCEPT ![w] = Logged(w, "Companies.row_values", ok)]
    /\ local' = [local EXCEPT ![w].company_data =
                    get_company_data(ok, companies, local[w].company_row)]
    /\ pc' = [pc EXCEPT ![w] = "get_calls"]
    /\ UNCHANGED <<companies, calls, now, nextId, op, inp, resp, before>>

\* get_company_history: spreadsheet.worksheet("Calls"), get_calls_for_company and the return
GetCalls(w, out) ==
    /\ pc[w] = "get_calls"
    /\ IF out = "worksheet"
       THEN /\ trace' = [trace EXCEPT ![w] = Logged(w, "Calls.worksheet", FALSE)]
            /\ Finish(w, HandlerError("get_company_history"))
       ELSE /\ trace' = [trace EXCEPT ![w] = Logged(w, "Calls.get_all_records", out = "ok")]
            /\ Finish(w, [NoResp EXCEPT
                    !.status = 200, !.success = TRUE,
                    !.company = local[w].company_data,
                    !.calls = get_calls_for_company(out = "ok", calls, inp[w].company_name)])
    /\ UNCHANGED <<companies, calls, now, nextId, op, inp, local, before>>

\* the body of search_calls from get_all_records() to the return
search_calls(ok, all_calls, keyword, company_name) ==
    IF ok
    THEN [NoResp EXCEPT
            !.status = 200, !.success = TRUE,
            !.count = Len(MatchingCalls(all_calls, keyword, company_name, 1)),
            !.calls = MatchingCalls(all_calls, keyword, company_name, 1)]
    ELSE HandlerError("search_calls")

\* the body of get_follow_ups from get_all_records() to the return
get_follow_ups(ok, all_calls, t) ==
    IF ok
    THEN [NoResp EXCEPT
            !.status = 200, !.success = TRUE,
            !.count = Len(FollowUps(all_calls, Strftime(t))),
            !.calls = FollowUps(all_calls, Strftime(t))]
    ELSE HandlerError("get_follow_ups")

\* search_calls and get_follow_ups: calls_sheet.get_all_records() and the rest of the handler
ReadCalls(w, ok) ==
    /\ pc[w] = "read_calls"
    /\ trace' = [trace EXCEPT ![w] = Logged(w, "Calls.get_all_records", ok)]
    /\ Finish(w, IF op[w] = "search_calls"
                 THEN search_calls(ok, calls, inp[w].keyword, inp[w].company_name)
                 ELSE get_follow_ups(ok, calls, now))
    /\ UNCHANGED <<companies, calls, now, nextId, op, inp, local, before>>

\* the response is sent; the worker takes the next request
Respond(w) ==
    /\ pc[w] = "done"
    /\ pc' = [pc EXCEPT ![w] = "idle"]
    /\ op' = [op EXCEPT ![w] = "none"]
    /\ inp' = [inp EXCEPT ![w] = NoInput]
    /\ local' = [local EXCEPT ![w] = NoLocal]
    /\ trace' = [trace EXCEPT ![w] = <<>>]
    /\ resp' = [resp EXCEPT ![w] = NoResp]
    /\ before' = [before EXCEPT ![w] = NoRows]
    /\ UNCHANGED <<companies, calls, now, nextId>>

\* time passes
Tick ==
    /\ now < MaxClock
    /\ now' = now + 1
    /\ UNCHANGED <<companies, calls, nextId, pc, op, inp, local, trace, resp, before>>

----------------------------------------------------------------------------
(* Specifications *)

Idle ==
    /\ pc = [w \in Workers |-> "idle"]
    /\ op = [w \in Workers |-> "none"]
    /\ inp = [w \in Workers |-> NoInput]
    /\ local = [w \in Workers |-> NoLocal]
    /\ trace = [w \in Workers |-> <<>>]
    /\ resp = [w \in Workers |-> NoResp]
    /\ before = [w \in Workers |-> NoRows]

\* an empty spreadsheet (header rows only)
Init ==
    /\ companies = <<>>
    /\ calls = <<>>
    /\ now = 1
    /\ nextId = 1
    /\ Idle

ReceiveAny(w) ==
    \E o \in Routes, h \in Headers, ok \in BOOLEAN :
        \E rq \in Requests(o, h) : Receive(w, o, rq, ok)

\* One worker process serving the four routes: its requests run one after the other.
Next ==
    \/ ReceiveAny("w1")
    \/ \E ok \in BOOLEAN : FindCompany("w1", ok)
    \/ \E ok \in BOOLEAN : AppendCompany("w1", ok)
    \/ \E out \in Outcomes : AppendCall("w1", out)
    \/ \E ok \in BOOLEAN : GetCompanyData("w1", ok)
    \/ \E out \in Outcomes : GetCalls("w1", out)
    \/ \E ok \in BOOLEAN : ReadCalls("w1", ok)
    \/ Respond("w1")

Spec == Init /\ [][Next]_vars

\* the log-call requests of the worker processes that run side by side
ConcCallLogs ==
    {[NoInput EXCEPT !.header = API_KEY, !.company_name = c, !.contact_name = <<"j">>,
                     !.notes = <<"a", "B">>] : c \in {<<"a", "b">>, <<"A", "B">>}}

ReceiveLogCall(w) ==
    \E rq \in ConcCallLogs, ok \in BOOLEAN : Receive(w, "log_call", rq, ok)

\* Two worker processes serving log-call on the same spreadsheet while time passes.
NextConc ==
    \/ \E w \in Workers : ReceiveLogCall(w)
    \/ \E w \in Workers, ok \in BOOLEAN : FindCompany(w, ok)
    \/ \E w \in Workers, ok \in BOOLEAN : AppendCompany(w, ok)
    \/ \E w \in Workers, out \in Outcomes : AppendCall(w, out)
    \/ \E w \in Workers : Respond(w)
    \/ Tick

SpecConc == Init /\ [][NextConc]_vars

----------------------------------------------------------------------------
(* Specifications of the queries: the sheets are drawn, then one worker reads them *)

\* the sequences of at most n elements of S
SeqsUpTo(S, n) == UNION {[1..k -> S] : k \in 0..n}

\* names found in the Companies sheet, which people edit by hand too
RowNames == Names \cup {<<"a", "B">>, <<"N">>}

FindNames == Names \cup {<<"n">>}

CompanySheets ==
    {[i \in 1..Len(ns) |-> [name |-> ns[i], contact_name |-> <<"j">>,
                            no_call |-> <<"F">>, created_at |-> Strftime(1)]] :
        ns \in SeqsUpTo(RowNames, MaxRows)}

InitFind ==
    /\ companies \in CompanySheets
    /\ calls = <<>>
    /\ now = 1
    /\ nextId = 1
    /\ Idle

ReceiveHistory(w) ==
    \E c \in FindNames, ok \in BOOLEAN :
        Receive(w, "get_company_history",
                [NoInput EXCEPT !.header = API_KEY, !.company_name = c], ok)

NextFind ==
    \/ ReceiveHistory("w1")
    \/ \E ok \in BOOLEAN : FindCompany("w1", ok)
    \/ \E ok \in BOOLEAN : GetCompanyData("w1", ok)
    \/ \E out \in Outcomes : GetCalls("w1", out)
    \/ Respond("w1")

SpecFind == InitFind /\ [][NextFind]_vars

FollowUpDates == {<<>>, <<"0", "1">>, <<"0", "2">>, <<"0", "3">>, <<"1">>}

\* Calls sheets whose rows differ in follow-up date; the id of a row is its position
DatedSheets ==
    {[i \in 1..Len(fs) |-> [id |-> i, company_name |-> <<"b">>, contact_name |-> <<"j">>,
                            notes |-> <<"a", "B">>, follow_up_date |-> fs[i]]] :
        fs \in SeqsUpTo(FollowUpDates, MaxRows)}

InitFollowUps ==
    /\ companies = <<>>
    /\ calls \in DatedSheets
    /\ now \in 1..MaxClock
    /\ nextId = Len(calls) + 1
    /\ Idle

ReceiveFollowUps(w) ==
    \E ok \in BOOLEAN :
        Receive(w, "get_follow_ups", [NoInput EXCEPT !.header = API_KEY], ok)

NextFollowUps ==
    \/ ReceiveFollowUps("w1")
    \/ \E ok \in BOOLEAN : ReadCalls("w1", ok)
    \/ Respond("w1")

SpecFollowUps == InitFollowUps /\ [][NextFollowUps]_vars

SearchNotes == {<<"a", "B">>, <<"b", "a">>, <<"a">>}

SearchKeywords == {<<>>, <<"B">>, <<"A", "B">>}

SearchFilters == {NoneStr, <<>>, <<"A", "B">>, <<"b">>}

\* Calls sheets whose rows differ in company and notes; the id of a row is its position
NotedSheets ==
    {[i \in 1..Len(rs) |-> [id |-> i, company_name |-> rs[i][1], contact_name |-> <<"j">>,
                            notes |-> rs[i][2], follow_up_date |-> <<>>]] :
        rs \in SeqsUpTo(Names \X SearchNotes, MaxRows)}

InitSearch ==
    /\ companies = <<>>
    /\ calls \in NotedSheets
    /\ now = 1
    /\ nextId = Len(calls) + 1
    /\ Idle

ReceiveSearch(w) ==
    \E k \in SearchKeywords, c \in SearchFilters, ok \in BOOLEAN :
        Receive(w, "search_calls",
                [NoInput EXCEPT !.header = API_KEY, !.keyword = k, !.company_name = c], ok)

NextSearch ==
    \/ ReceiveSearch("w1")
    \/ \E ok \in BOOLEAN : ReadCalls("w1", ok)
    \/ Respond("w1")

SpecSearch == InitSearch /\ [][NextSearch]_vars

\* Companies sheets whose rows differ in name and contact; a name may occur twice, as
\* two racing log-calls leave it
HistoryCompanies ==
    {[i \in 1..Len(ns) |-> [name |-> ns[i], contact_name |-> <<Digit(i)>>,
                            no_call |-> <<"F">>, created_at |-> Strftime(1)]] :
        ns \in SeqsUpTo(Names, MaxRows)}

\* Calls sheets whose rows differ in company; the id of a row is its position
HistoryCalls ==
    {[i \in 1..Len(ns) |-> [id |-> i, company_name |-> ns[i], contact_name |-> <<"j">>,
                            notes |-> <<"a", "B">>, follow_up_date |-> <<>>]] :
        ns \in SeqsUpTo(Names, MaxRows)}

\* every call is one of a company of the Companies sheet, as log_call leaves them
InitHistory ==
    /\ companies \in HistoryCompanies
    /\ calls \in HistoryCalls
    /\ \A i \in 1..Len(calls) :
          find_company_row(TRUE, companies, calls[i].company_name) # None
    /\ now = 1
    /\ nextId = Len(calls) + 1
    /\ Idle

NextHistory ==
    \/ ReceiveHistory("w1")
    \/ \E ok \in BOOLEAN : FindCompany("w1", ok)
    \/ \E ok \in BOOLEAN : GetCompanyData("w1", ok)
    \/ \E out \in Outcomes : GetCalls("w1", out)
    \/ Respond("w1")

SpecHistory == InitHistory /\ [][NextHistory]_vars

\* what a client can send as follow_up_date: CallLog declares Optional[str] and no
\* validator, so the field may be left out (or null) or be any string
DateInputs == {NoneStr, <<>>, <<"0", "1">>, <<"1">>, <<"a", "b">>}

DatedCallLogs ==
    {[NoInput EXCEPT !.header = API_KEY, !.company_name = c, !.contact_name = <<"j">>,
                     !.notes = <<"a", "B">>, !.follow_up_date = f] :
        c \in {<<"a", "b">>, <<"b">>}, f \in DateInputs}

ReceiveDated(w) ==
    \E rq \in DatedCallLogs, ok \in BOOLEAN : Receive(w, "log_call", rq, ok)

\* One worker process serving log-call with any follow_up_date.
NextDates ==
    \/ ReceiveDated("w1")
    \/ \E ok \in BOOLEAN : FindCompany("w1", ok)
    \/ \E ok \in BOOLEAN : AppendCompany("w1", ok)
    \/ \E out \in Outcomes : AppendCall("w1", out)
    \/ Respond("w1")

SpecDates == Init /\ [][NextDates]_vars

----------------------------------------------------------------------------
(* Claims *)

\* some store call of the request w serves raised
Raised(w) == \E k \in 1..Len(trace[w]) : ~trace[w][k].ok

\* the store call named c was made by the request w serves
Called(w, c) == \E k \in 1..Len(trace[w]) : trace[w][k].call = c

\* C1: with one request served at a time, the Companies sheet never holds two rows
\* whose names are equal ignoring case.
C1_OneRowPerName ==
    \A i, j \in 1..Len(companies) :
        Lower(companies[i].name) = Lower(companies[j].name) => i = j

\* C2: a request to a protected route whose X-API-Key header is missing or is not the
\* configured key is answered 401 before the handler makes any store call.
C2_BadKeyIs401 ==
    \A w \in Workers :
        (pc[w] = "done" /\ inp[w].header # API_KEY) =>
            (resp[w].status = 401 /\ trace[w] = <<>>)

\* the request w serves is one to route o and has its response
Done(w, o) == pc[w] = "done" /\ op[w] = o

\* the row number of the topmost data row named a ignoring case, None without one
FirstMatch(sheet, a) ==
    LET M == {i \in 1..Len(sheet) : Lower(sheet[i].name) = Lower(a)}
    IN  IF M = {} THEN None
        ELSE 1 + CHOOSE i \in M : \A j \in M : i <= j

\* C3: on every Companies sheet, find_company_row gives two names that differ only in
\* case the same result: the row number (header row counted) of the topmost data row
\* with that name ignoring case, None when there is none; the lookup a handler made
\* has that result.
C3_FindFirstMatch ==
    /\ \A a, b \in FindNames :
          Lower(a) = Lower(b) =>
              find_company_row(TRUE, companies, a) = find_company_row(TRUE, companies, b)
    /\ \A a \in FindNames :
          find_company_row(TRUE, companies, a) = FirstMatch(companies, a)
    /\ \A w \in Workers :
          (Len(trace[w]) >= 2 /\ trace[w][2] = [call |-> "Companies.col_values", ok |-> TRUE])
              => local[w].company_row = FirstMatch(companies, inp[w].company_name)

\* a lookup found the first of two rows that carry its name in different case, and the
\* first is not the one spelled as asked
C3_Witness ==
    \E w \in Workers :
        /\ Called(w, "Companies.col_values")
        /\ local[w].company_row = 2
        /\ Len(companies) >= 2
        /\ companies[1].name # inp[w].company_name
        /\ companies[2].name = inp[w].company_name

\* the positions of the Calls rows that are due on the day `today`
DueRows(today) ==
    {i \in 1..Len(calls) :
        calls[i].follow_up_date # <<>> /\ StrLE(calls[i].follow_up_date, today)}

\* the position in the Calls sheet of a returned call (ids are unique in the sheet)
RowOf(c) == CHOOSE i \in 1..Len(calls) : calls[i].id = c.id

\* C4: get-follow-ups returns exactly the calls whose follow_up_date is non-empty and
\* lexicographically <= today, each once, in ascending order of follow_up_date, calls
\* with equal dates in the order of the sheet, and count is their number.
C4_FollowUpsDue ==
    \A w \in Workers :
        (Done(w, "get_follow_ups") /\ resp[w].success) =>
            LET R == resp[w].calls
            IN  /\ \A k \in 1..Len(R) :
                      \E i \in DueRows(Strftime(now)) : R[k] = CallDict(calls[i])
                /\ \A i \in DueRows(Strftime(now)) :
                      Cardinality({k \in 1..Len(R) : R[k] = CallDict(calls[i])}) = 1
                /\ \A k, l \in 1..Len(R) :
                      k < l =>
                          /\ StrLE(R[k].follow_up_date, R[l].follow_up_date)
                          /\ R[k].follow_up_date = R[l].follow_up_date
                                => RowOf(R[k]) < RowOf(R[l])
                /\ resp[w].count = Len(R)
                /\ resp[w].status = 200

\* get-follow-ups left out a call without a date, and returned a later row before an
\* earlier one because its date is earlier
C4_Witness ==
    \E w \in Workers :
        /\ Done(w, "get_follow_ups") /\ resp[w].success
        /\ Len(resp[w].calls) = 2
        /\ RowOf(resp[w].calls[1]) > RowOf(resp[w].calls[2])
        /\ resp[w].calls[2].follow_up_date = Strftime(now)
        /\ \E i \in 1..Len(calls) : calls[i].follow_up_date = <<>>

\* two calls due on the same day are returned in the order of the sheet
C4_WitnessTie ==
    \E w \in Workers :
        /\ Done(w, "get_follow_ups") /\ resp[w].success
        /\ Len(resp[w].calls) = 2
        /\ resp[w].calls[1].follow_up_date = resp[w].calls[2].follow_up_date

\* the rows of the Calls sheet as a handler returns them
AllCalls == [i \in 1..Len(calls) |-> CallDict(calls[i])]

\* the notes of the call c contain the keyword, ignoring case
HasKeyword(c, keyword) == Contains(Lower(keyword), Lower(c.notes))

\* the call c is one of the company, ignoring case
OfCompany(c, company_name) == Lower(c.company_name) = Lower(company_name)

\* C5 as stated: search-calls returns, in the order of the sheet, exactly the calls
\* whose notes contain the keyword ignoring case and, when a company filter is given,
\* whose company_name equals the filter ignoring case.
C5_SearchAsStated ==
    \A w \in Workers :
        (Done(w, "search_calls") /\ resp[w].success) =>
            LET Test(c) ==
                    /\ HasKeyword(c, inp[w].keyword)
                    /\ inp[w].company_name # NoneStr => OfCompany(c, inp[w].company_name)
            IN  resp[w].calls = SelectSeq(AllCalls, Test)

\* C5 amended: search-calls returns, in the order of the sheet, exactly the calls
\* whose notes contain the keyword ignoring case and, when a non-empty company filter
\* is given, whose company_name equals the filter ignoring case; an empty filter is
\* treated as no filter.  An empty keyword without a filter returns every call.
C5_SearchNonEmptyFilter ==
    \A w \in Workers :
        (Done(w, "search_calls") /\ resp[w].success) =>
            LET Test(c) ==
                    /\ HasKeyword(c, inp[w].keyword)
                    /\ (inp[w].company_name # NoneStr /\ inp[w].company_name # <<>>)
                          => OfCompany(c, inp[w].company_name)
            IN  /\ resp[w].calls = SelectSeq(AllCalls, Test)
                /\ resp[w].count = Len(resp[w].calls)
                /\ resp[w].status = 200
                /\ (inp[w].keyword = <<>> /\ inp[w].company_name \in {NoneStr, <<>>})
                      => resp[w].calls = AllCalls

\* a search with an upper-case keyword and a filter in another case returned the
\* second row of the sheet and not the first, which matches the keyword too but
\* belongs to another company
C5_Witness ==
    \E w \in Workers :
        /\ Done(w, "search_calls") /\ resp[w].success
        /\ inp[w].keyword = <<"B">>
        /\ inp[w].company_name = <<"A", "B">>
        /\ Len(calls) = 2
        /\ calls[1].company_name = <<"b">> /\ Contains(<<"b">>, Lower(calls[1].notes))
        /\ calls[2].company_name = <<"a", "b">>
        /\ resp[w].calls = <<CallDict(calls[2])>>

C7_NotFound ==
    \A w \in Workers :
        ( /\ Done(w, "get_company_history") /\ inp[w].header = API_KEY
          /\ FirstMatch(companies, inp[w].company_name) = None ) =>
            /\ resp[w].status = 200 /\ ~resp[w].success
            /\ ~Raised(w) => resp[w].message = "Company not found"
            /\ ~Called(w, "Calls.worksheet") /\ ~Called(w, "Calls.get_all_records")
            /\ Len(companies) = before[w].companies /\ Len(calls) = before[w].calls

\* a history for a name the sheet lacks, asked while the sheet holds another company
C7_Witness ==
    \E w \in Workers :
        /\ Done(w, "get_company_history") /\ ~Raised(w)
        /\ Len(companies) >= 1
        /\ Called(w, "Companies.col_values")
        /\ resp[w].message = "Company not found"

\* C8: a request during which a store read or append raised is answered 500.
C8_FailureIs500 ==
    \A w \in Workers :
        (pc[w] = "done" /\ Raised(w)) => resp[w].status = 500

\* the lookup of the request w serves read the name column and found no row
LookedUpNone(w) ==
    /\ \E k \in 1..Len(trace[w]) : trace[w][k] = [call |-> "Companies.col_values", ok |-> TRUE]
    /\ local[w].company_row = None

\* the request w serves has appended its Companies row
AppendedCompany(w) ==
    \E k \in 1..Len(trace[w]) : trace[w][k] = [call |-> "Companies.append_row", ok |-> TRUE]

\* the rows of the Companies sheet named a ignoring case
RowsNamed(a) == {i \in 1..Len(companies) : Lower(companies[i].name) = Lower(a)}

\* C9: when two log-call requests for the same name have both read the name column
\* without finding the name, and both have then appended, the Companies sheet holds
\* two rows for that name: the append is unconditional.
C9_RaceAppendsTwice ==
    \A v, w \in Workers :
        ( /\ v # w
          /\ op[v] = "log_call" /\ op[w] = "log_call"
          /\ Lower(inp[v].company_name) = Lower(inp[w].company_name)
          /\ LookedUpNone(v) /\ LookedUpNone(w)
          /\ AppendedCompany(v) /\ AppendedCompany(w) ) =>
            Cardinality(RowsNamed(inp[v].company_name)) >= 2

\* two requests in flight for one new name, no store call of either raised, both have
\* appended: two rows
C9_Witness ==
    \E v, w \in Workers :
        /\ v # w
        /\ op[v] = "log_call" /\ op[w] = "log_call"
        /\ ~Raised(v) /\ ~Raised(w)
        /\ before[v].companies = 0 /\ before[w].companies = 0
        /\ LookedUpNone(v) /\ LookedUpNone(w)
        /\ AppendedCompany(v) /\ AppendedCompany(w)
        /\ Len(companies) = 2
        /\ Lower(companies[1].name) = Lower(companies[2].name)

\* s is the beginning of t
IsPrefix(s, t) == Len(s) <= Len(t) /\ SubSeq(t, 1, Len(s)) = s

\* C10: every step leaves the rows of both sheets as they are, in place, and adds at
\* most one row at the end of a sheet; only a log-call adds one.  A request that is
\* done has added at most one Companies row, and one Calls row if it is a log-call
\* that reports success, none otherwise.
C10_AppendOnly ==
    /\ [][ /\ IsPrefix(companies, companies') /\ Len(companies') <= Len(companies) + 1
           /\ IsPrefix(calls, calls') /\ Len(calls') <= Len(calls) + 1
           /\ (companies' # companies \/ calls' # calls) =>
                 \E w \in Workers : op[w] = "log_call" /\ pc'[w] # pc[w] ]_vars
    /\ [](\A w \in Workers :
            pc[w] = "done" =>
                /\ Len(companies) - before[w].companies
                      \in (IF op[w] = "log_call" THEN {0, 1} ELSE {0})
                /\ Len(calls) - before[w].calls
                      = (IF op[w] = "log_call" /\ resp[w].success THEN 1 ELSE 0))

\* a log-call for a second company is done: the first row is still in place
C10_Witness ==
    \E w \in Workers :
        /\ Done(w, "log_call") /\ resp[w].success
        /\ before[w] = [companies |-> 1, calls |-> 1]
        /\ Len(companies) = 2 /\ Len(calls) = 2
        /\ Lower(companies[1].name) # Lower(companies[2].name)

\* the calls of the company named a ignoring case, in the order of the Calls sheet
CallsOf(a) ==
    LET Test(c) == OfCompany(c, a)
    IN  SelectSeq(AllCalls, Test)

\* the response r carries the first Companies row named a ignoring case and the calls
\* of that company
IsHistoryOf(r, a) ==
    /\ r.status = 200 /\ r.success
    /\ r.company.name = companies[FirstMatch(companies, a) - 1].name
    /\ r.company.contact_name = companies[FirstMatch(companies, a) - 1].contact_name
    /\ r.company.created_at = companies[FirstMatch(companies, a) - 1].created_at
    /\ r.calls = CallsOf(a)

\* C11: a get-company-history for a name some Companies row carries (ignoring case)
\* either reports an error or returns the data of the first such row and exactly the
\* Calls rows whose company_name equals the name asked for ignoring case, in the order
\* of the sheet.
C11_HistoryOfCompany ==
    \A w \in Workers :
        ( /\ Done(w, "get_company_history") /\ inp[w].header = API_KEY
          /\ FirstMatch(companies, inp[w].company_name) # None ) =>
            \/ resp[w] = HandlerError("get_company_history")
            \/ IsHistoryOf(resp[w], inp[w].company_name)

\* C11 for the requests none of whose store calls raises: the history is the data of
\* the first matching row and exactly the calls of the company, in the order of the sheet.
C11_HistoryWhenReadsReturn ==
    \A w \in Workers :
        ( /\ Done(w, "get_company_history") /\ inp[w].header = API_KEY
          /\ ~Raised(w)
          /\ FirstMatch(companies, inp[w].company_name) # None ) =>
            IsHistoryOf(resp[w], inp[w].company_name)

\* a history returned the first of two rows of the company and its two calls, logged
\* under two spellings, and not the call of another company that lies between them
C11_Witness ==
    \E w \in Workers :
        /\ Done(w, "get_company_history") /\ ~Raised(w)
        /\ Cardinality(RowsNamed(inp[w].company_name)) = 2
        /\ resp[w].company.contact_name = companies[1].contact_name
        /\ companies[1].name # inp[w].company_name
        /\ Len(calls) = 3
        /\ resp[w].calls = <<CallDict(calls[1]), CallDict(calls[3])>>
        /\ calls[1].company_name # calls[3].company_name

\* the store call named c, made by the request w serves, raised
Failed(w, c) == \E k \in 1..Len(trace[w]) : trace[w][k] = [call |-> c, ok |-> FALSE]

\* C12: no store call is made twice by a request, and a log-call or get-company-history
\* during which the read of the name column or the read of the Calls sheet raised
\* reports the error: it answers neither "Company not found" nor success, and has
\* appended no Companies row.
C12_FailureReported ==
    \A w \in Workers :
        /\ \A k, l \in 1..Len(trace[w]) : trace[w][k].call = trace[w][l].call => k = l
        /\ ( /\ pc[w] = "done" /\ op[w] \in {"log_call", "get_company_history"}
             /\ Failed(w, "Companies.col_values") \/ Failed(w, "Calls.get_all_records") ) =>
               /\ resp[w] = HandlerError(op[w])
               /\ Len(companies) = before[w].companies

\* a log-call whose read of the name column raised appended a second row for a name
\* the sheet held, and reports success
C12_Witness ==
    \E w \in Workers :
        /\ Done(w, "log_call") /\ resp[w].success
        /\ Failed(w, "Companies.col_values")
        /\ before[w].companies = 1
        /\ Cardinality(RowsNamed(inp[w].company_name)) = 2

\* s has the shape strftime gives a date: fixed width, digits only
IsDate(s) == Len(s) = 2 /\ \A i \in 1..Len(s) : s[i] \in {"0", "1", "2", "3"}

\* C13: every row of the Calls sheet has a follow_up_date that is empty or has the
\* shape of a date, whatever the log-call requests carried.
C13_StoredDates ==
    \A i \in 1..Len(calls) :
        calls[i].follow_up_date = <<>> \/ IsDate(calls[i].follow_up_date)

\* a log-call without follow_up_date stored the empty string, and one with a date
\* stored the date
C13_Witness ==
    \E w \in Workers :
        /\ Done(w, "log_call") /\ resp[w].success
        /\ inp[w].follow_up_date = NoneStr
        /\ Len(calls) = 2
        /\ calls[1].follow_up_date = <<"0", "1">>
        /\ calls[2].follow_up_date = <<>>

\* C14: in every state, under every interleaving of log-call requests and after a
\* log-call that failed part-way, every row of the Calls sheet has a company_name that
\* some row of the Companies sheet carries ignoring case; and a log-call that is about to
\* append its call has its company in the Companies sheet.
C14_CallHasCompany ==
    /\ \A i \in 1..Len(calls) : RowsNamed(calls[i].company_name) # {}
    /\ \A w \in Workers :
          (op[w] = "log_call" /\ pc[w] = "append_call") =>
              RowsNamed(inp[w].company_name) # {}

\* one log-call appended its company and failed at the Calls sheet; the other, for the
\* same company spelled otherwise, found that row and appended its call
C14_Witness ==
    \E v, w \in Workers :
        /\ v # w
        /\ Done(v, "log_call") /\ ~resp[v].success /\ AppendedCompany(v)
        /\ Done(w, "log_call") /\ resp[w].success /\ ~AppendedCompany(w)
        /\ Len(companies) = 1 /\ Len(calls) = 1
        /\ calls[1].company_name # companies[1].name

====
